---- MODULE Spec2Model ----
(***************************************************************************)
(* Model of the InstaSlice controller                                      *)
(* (internal/controller/instaslice_controller.go).                         *)
(*                                                                         *)
(* One reconciliation pass (InstasliceReconciler.Reconcile) is three       *)
(* steps:                                                                  *)
(*   List(p)       r.List at line 75: the inventory snapshot of the pass   *)
(*   Reconcile(p)  r.Get of the pod at line 78 and everything after it     *)
(*   Handover(p)   the work queue takes the returned (Result, error)       *)
(* Passes of different pods interleave between the first two steps, so a   *)
(* pass decides on a snapshot that other writers may have outdated.  Every *)
(* inventory write of the code is a Get of the record followed by an       *)
(* Update that the API server rejects if the record changed in between;    *)
(* a successful Get+Update pair is therefore one atomic step, and a        *)
(* rejected one is the failure of that call (a member of the fault set F). *)
(* The pod is read by Reconcile(p) itself, and passes of one pod never     *)
(* overlap (controller-runtime serialises a key), so a pod Update either   *)
(* applies to the pod as read or fails.                                    *)
(*                                                                         *)
(* Spec is the open system around one workload, in a cluster that earlier  *)
(* workloads left partly occupied: a request for the pod may be in the     *)
(* queue at any time (resync, pod events), any API call may fail, the      *)
(* health oracle may answer either way.  RaceSpec has two workloads whose  *)
(* passes interleave, without failing calls.  LiveSpec is the closed       *)
(* system used for progress: requests come from the watches, the returned  *)
(* directives and the resynchronisation only, at most MaxFaults calls      *)
(* fail, the oracle has a state, and scheduling is fair.  ClosedSpec is    *)
(* the same closed system without failing calls and without fairness, for  *)
(* what the watches put in the queue.  PolicySpec calls the allocation     *)
(* policies on their own, outside any pass.                                *)
(***************************************************************************)
EXTENDS Integers, Sequences, FiniteSets, TLC

\* ------------------------------------------------------------- bounds
NumPods == 3
NumNodes == 2
NumDevices == 1
NumSlots == 1
NumProfiles == 1
TickStep == 30
MaxAge == 60
MaxFaults == 1

\* -------------------------------------------------- program constants
GracePeriod == 30
RetrySeconds == 2
ConflictSeconds == 1
RandMax == 10

Pods == 1..NumPods
Nodes == 1..NumNodes
Devices == 1..NumDevices
Profiles == 1..NumProfiles

\* the empty pod name of the zero-valued v1.Pod left by a failed Get
EmptyName == 0
\* an unset node selector
NoNode == 0

VARIABLES
    pods,      \* pods[p]: the pod object with UID p on the API server
    allocs,    \* allocs[n][u]: Spec.Allocations[u] of the Instaslice of node n
    prepared,  \* prepared[n]: Spec.Prepared of the Instaslice of node n
    pc,        \* pc[p]: "idle", "listed" (the pass of p holds a snapshot) or
               \* "returned" (the pass of p has returned, the queue not yet acted)
    snap,      \* snap[p]: instasliceList of the pass in flight for p
    res,       \* res[p]: what the last pass of p returned and wrote
    queued,    \* queued[p]: a reconcile.Request for p is in the work queue
    healthy,   \* the device-plugin pod is Running and Ready: "yes", "no", "any"
    faults,    \* API-call failures still to come (-1: unbounded)
    world      \* "open": requests, failures and health come at any time;
               \* "closed": only as the watches, directives and budget allow

vars == <<pods, allocs, prepared, pc, snap, res, queued, healthy, faults, world>>

\* ---------------------------------------------------------- data model
\* AllocationStatus values, and "None" for a key absent from the map
Statuses == {"creating", "created", "ungated", "deleting", "deleted"}

NoAlloc ==
    [status |-> "None", nodename |-> NoNode, dev |-> 0, start |-> 0, size |-> 0,
     profile |-> 0, podName |-> EmptyName]

NoPod ==
    [state |-> "new", gate |-> FALSE, otherGate |-> FALSE, fin |-> FALSE,
     phase |-> "Pending", del |-> FALSE, age |-> 0, sel |-> NoNode,
     containers |-> 0, limits |-> {}]

GonePod == [NoPod EXCEPT !.state = "gone"]

EmptyInv == [n \in Nodes |-> [u \in Pods |-> NoAlloc]]
EmptyPrepared == [n \in Nodes |-> {}]

\* instasliceList.Items of a pass: the node records in list order
EmptyList == [items |-> <<>>, allocs |-> EmptyInv, prepared |-> EmptyPrepared]

NoResult ==
    [kind |-> "none", after |-> 0, err |-> FALSE, iw |-> 0, pw |-> 0,
     branch |-> "none"]

HasEntry(a) == a.status # "None"

\* half-open ranges [s1, s1+z1) and [s2, s2+z2) intersect
Overlap(s1, z1, s2, z2) == s1 < s2 + z2 /\ s2 < s1 + z1

NodeSeq == [i \in 1..NumNodes |-> i]

\* ------------------------------------------------------ pure functions
\* extractProfileName: the profile of a limit whose name contains "mig-" and
\* matches (\d+g\.\d+gb); a limit is [mig, profile] with profile 0 when the
\* pattern does not match; "" (0) when no limit qualifies.  Go iterates the
\* map in no fixed order and the last match wins: any match can be returned.
extractProfileName(limits) ==
    LET m == {k.profile : k \in {l \in limits : l.mig /\ l.profile # 0}}
    IN  IF m = {} THEN {0} ELSE m

\* checkIfPodGatedByInstaSlice without the test of the gate name (line 478)
checkIfPodGatedByInstaSlice_NoGateName(pod) == pod.phase = "Pending"

\* lines 476-485: the gate of this system is on the pod, the phase is Pending
\* and the first condition says "blocked", as it does on every gated pod
checkIfPodGatedByInstaSlice(pod) == pod.gate /\ pod.phase = "Pending"

\* isPodGatedByOthers that finds no other gate (the loop of line 489 skipped)
isPodGatedByOthers_NoGateSeen(pod) == FALSE

\* lines 488-495: some scheduling gate of the pod is not the gate of this system
isPodGatedByOthers(pod) == pod.otherGate

unGatePod(pod) == [pod EXCEPT !.gate = FALSE]

\* podMapFunc without the Deleted half of the test of line 502
podMapFunc_CreatedOnly(record) ==
    {record[u].podName : u \in {v \in Pods : record[v].status = "created"}}

\* the (namespace, name) requests podMapFunc returns for one Instaslice
podMapFunc(record) ==
    {record[u].podName : u \in {v \in Pods : record[v].status \in {"created", "deleted"}}}

\* FirstFitPolicy.SetAllocationDetails
SetAllocationDetails(profile, start, size, podUUID, nodename, processed, dev) ==
    [status |-> processed, nodename |-> nodename, dev |-> dev, start |-> start,
     size |-> size, profile |-> profile, podName |-> podUUID]

\* the zero-valued inferencev1alpha1.AllocationDetails{}
EmptyDetails ==
    [status |-> "", nodename |-> NoNode, dev |-> 0, start |-> 0, size |-> 0,
     profile |-> 0, podName |-> EmptyName]

\* LeftToRightPolicy.SetAllocationDetails
LeftToRightPolicy_SetAllocationDetails(profile, start, size, podUUID, nodename, processed, dev) ==
    EmptyDetails

\* RightToLeftPolicy.SetAllocationDetails
RightToLeftPolicy_SetAllocationDetails(profile, start, size, podUUID, nodename, processed, dev) ==
    EmptyDetails

\* the three types declared for AllocationPolicy
Policies == {"FirstFitPolicy", "LeftToRightPolicy", "RightToLeftPolicy"}

\* a call of SetAllocationDetails on a policy: the details it returns, and
\* whether it signals an error (it has no error result and does not panic)
PolicyResult(policy, profile, start, size, podUUID, nodename, processed, dev) ==
    [signalled |-> FALSE,
     details |->
        CASE policy = "FirstFitPolicy" ->
                SetAllocationDetails(profile, start, size, podUUID, nodename, processed, dev)
          [] policy = "LeftToRightPolicy" ->
                LeftToRightPolicy_SetAllocationDetails(profile, start, size, podUUID,
                                                       nodename, processed, dev)
          [] policy = "RightToLeftPolicy" ->
                RightToLeftPolicy_SetAllocationDetails(profile, start, size, podUUID,
                                                       nodename, processed, dev)]

\* The placement table of a node: profile k has size k and may start at the
\* multiples of k that leave room for k slots.
PlacementStarts(profile) ==
    IF profile \in Profiles
    THEN {s \in 0..(NumSlots - profile) : s % profile = 0}
    ELSE {}

\* a (device, start) of node n that the snapshot S shows free for the profile
SliceFree(S, n, dev, start, size) ==
    /\ \A item \in S.prepared[n] :
          ~(item.dev = dev /\ item.start = start /\ item.size = size)
    /\ \A u \in Pods :
          LET a == S.allocs[n][u]
          IN  ~(HasEntry(a) /\ a.dev = dev /\ Overlap(a.start, a.size, start, size))

\* findNodeAndDeviceForASlice on one node record of the snapshot: first fit,
\* lowest device and then lowest start; err when the node has no free slice.
findNodeAndDeviceForASlice(S, n, profile, podUUID) ==
    LET cand == {ds \in Devices \X PlacementStarts(profile) :
                    SliceFree(S, n, ds[1], ds[2], profile)}
        best == CHOOSE ds \in cand :
                    \A o \in cand : ds[1] < o[1] \/ (ds[1] = o[1] /\ ds[2] <= o[2])
    IN  IF cand = {}
        THEN [err |-> TRUE, alloc |-> NoAlloc]
        ELSE [err |-> FALSE,
              alloc |-> SetAllocationDetails(profile, best[2], profile, podUUID, n,
                                             "creating", best[1])]

\* ------------------------------------------------- the pass, call by call
\* The running state of a pass: the pod and inventory as the API server holds
\* them, the (Result, error) being returned, the successful writes so far.
Ctx(pod, inv) ==
    [pod |-> pod, allocs |-> inv, kind |-> "done", after |-> 0, err |-> FALSE,
     iw |-> 0, pw |-> 0, ret |-> FALSE, branch |-> "none"]

\* return (Result, err) from Reconcile
Return(c, kind, after, err) ==
    [c EXCEPT !.kind = kind, !.after = after, !.err = err, !.ret = TRUE]

\* (Result, err) of a helper, for its caller to look at
Yield(c, kind, after, err) ==
    [c EXCEPT !.kind = kind, !.after = after, !.err = err]

\* the allocation entries of the snapshot, in the order the loops visit them
Entries(S) ==
    LET all == [k \in 1..(Len(S.items) * NumPods) |->
                    <<S.items[((k - 1) \div NumPods) + 1], ((k - 1) % NumPods) + 1>>]
    IN  SelectSeq(all, LAMBDA e : HasEntry(S.allocs[e[1]][e[2]]))

deleteInstasliceAllocation(c, n, u, F) ==
    IF "InvGet" \in F THEN Yield(c, "after", RetrySeconds, TRUE)
    ELSE IF "InvUpdate" \in F THEN Yield(c, "requeue", 0, TRUE)
    ELSE Yield([c EXCEPT !.allocs[n][u] = NoAlloc, !.iw = @ + 1], "done", 0, FALSE)

removeInstasliceAllocation(c, n, u, a, F) ==
    IF a.status = "deleted"
    THEN deleteInstasliceAllocation(c, n, u, F)
    ELSE Yield(c, "done", 0, FALSE)

\* setInstasliceAllocationToDeleting that reports a rejected Update as success
\* (line 645 returning ctrl.Result{}, nil)
setInstasliceAllocationToDeleting_ErrorDropped(c, n, u, a, F) ==
    IF "InvGet" \in F THEN Yield(c, "requeue", 0, TRUE)
    ELSE IF "InvUpdate" \in F THEN Yield(c, "done", 0, FALSE)
    ELSE Yield([c EXCEPT !.allocs[n][u] = [a EXCEPT !.status = "deleting"],
                         !.iw = @ + 1], "done", 0, FALSE)

\* lines 626-649
setInstasliceAllocationToDeleting(c, n, u, a, F) ==
    IF "InvGet" \in F THEN Yield(c, "requeue", 0, TRUE)
    ELSE IF "InvUpdate" \in F THEN Yield(c, "requeue", 0, TRUE)
    ELSE Yield([c EXCEPT !.allocs[n][u] = [a EXCEPT !.status = "deleting"],
                         !.iw = @ + 1], "done", 0, FALSE)

removeInstaSliceFinalizer(c, F) ==
    IF "FinGet" \in F THEN Yield(c, "requeue", 0, TRUE)
    ELSE IF "FinUpdate" \in F THEN Yield(c, "requeue", 0, TRUE)
    ELSE Yield([c EXCEPT !.pod.fin = FALSE, !.pw = @ + 1], "done", 0, FALSE)

\* controllerutil.RemoveFinalizer on the pod of the pass, then r.Update
RemoveFinalizerAndUpdate(c, F) ==
    IF "PodUpdate" \in F THEN Return(c, "requeue", 0, FALSE)
    ELSE [c EXCEPT !.pod.fin = FALSE, !.pw = @ + 1]


\* NotFoundLoop whose test of line 86 holds for every allocation
RECURSIVE NotFoundLoop_EveryAllocation(_, _, _, _, _)
NotFoundLoop_EveryAllocation(i, E, S, F, c) ==
    IF i > Len(E) THEN Return(c, "done", 0, FALSE)
    ELSE LET n == E[i][1]
             u == E[i][2]
             d == deleteInstasliceAllocation(c, n, u, F)
         IN  IF d.err THEN Return(d, d.kind, d.after, TRUE)
             ELSE NotFoundLoop_EveryAllocation(i + 1, E, S, F, d)

\* lines 84-94: the pod is gone; the zero-valued pod has the empty name
RECURSIVE NotFoundLoop(_, _, _, _, _)
NotFoundLoop(i, E, S, F, c) ==
    IF i > Len(E) THEN Return(c, "done", 0, FALSE)
    ELSE LET n == E[i][1]
             u == E[i][2]
             a == S.allocs[n][u]
         IN  IF a.podName = EmptyName
             THEN LET d == deleteInstasliceAllocation(c, n, u, F)
                  IN  IF d.err THEN Return(d, d.kind, d.after, TRUE)
                      ELSE NotFoundLoop(i + 1, E, S, F, d)
             ELSE NotFoundLoop(i + 1, E, S, F, c)

\* lines 124-163: phase Failed with the finalizer
RECURSIVE FailedLoop(_, _, _, _, _, _, _)
FailedLoop(i, E, S, p, F, c, allocationNotFound) ==
    IF i > Len(E)
    THEN IF allocationNotFound /\ c.pod.fin
         THEN LET d == RemoveFinalizerAndUpdate(c, F)
              IN  IF d.ret THEN d ELSE Return(d, "done", 0, FALSE)
         ELSE Return(c, "done", 0, FALSE)
    ELSE LET n == E[i][1]
             u == E[i][2]
             a == S.allocs[n][u]
         IN  IF u # p THEN FailedLoop(i + 1, E, S, p, F, c, allocationNotFound)
             ELSE IF a.status = "creating" THEN Return(c, "after", RetrySeconds, FALSE)
             ELSE IF a.status \in {"created", "ungated"}
             THEN LET d == setInstasliceAllocationToDeleting(c, n, u, a, F)
                  IN  IF d.err THEN Return(d, d.kind, d.after, FALSE)
                      ELSE Return(d, "done", 0, FALSE)
             ELSE IF a.status = "deleted"
             THEN LET d == removeInstasliceAllocation(c, n, u, a, F)
                  IN  IF d.err THEN Return(d, d.kind, d.after, FALSE)
                      ELSE Return(d, "after", RetrySeconds, FALSE)
             ELSE FailedLoop(i + 1, E, S, p, F, c, FALSE)

\* lines 166-204: phase Succeeded with the finalizer
RECURSIVE SucceededLoop(_, _, _, _, _, _, _)
SucceededLoop(i, E, S, p, F, c, allocationNotFound) ==
    IF i > Len(E)
    THEN IF allocationNotFound /\ c.pod.fin
         THEN LET d == RemoveFinalizerAndUpdate(c, F)
              IN  IF d.ret THEN d ELSE Return(d, "done", 0, FALSE)
         ELSE Return(c, "done", 0, FALSE)
    ELSE LET n == E[i][1]
             u == E[i][2]
             a == S.allocs[n][u]
         IN  IF u # p THEN SucceededLoop(i + 1, E, S, p, F, c, allocationNotFound)
             ELSE IF a.status # "deleted"
             THEN LET d == setInstasliceAllocationToDeleting(c, n, u, a, F)
                  IN  IF d.err THEN Return(d, d.kind, d.after, TRUE)
                      ELSE Return(d, "done", 0, FALSE)
             ELSE LET d == removeInstasliceAllocation(c, n, u, a, F)
                  IN  IF d.err THEN Return(d, d.kind, d.after, FALSE)
                      ELSE Return(d, "after", RetrySeconds, FALSE)

\* GatedDeleteLoop without the removal of the finalizer of lines 235-241
RECURSIVE GatedDeleteLoop_FinalizerKept(_, _, _, _, _, _)
GatedDeleteLoop_FinalizerKept(i, E, S, p, F, c) ==
    IF i > Len(E) THEN Return(c, "done", 0, FALSE)
    ELSE LET n == E[i][1]
             u == E[i][2]
             a == S.allocs[n][u]
         IN  IF u # p THEN GatedDeleteLoop_FinalizerKept(i + 1, E, S, p, F, c)
             ELSE IF a.status = "created"
             THEN IF "InvGet" \in F \/ "InvUpdate" \in F
                  THEN Return(c, "after", ConflictSeconds, FALSE)
                  ELSE GatedDeleteLoop_FinalizerKept(i + 1, E, S, p, F,
                           [c EXCEPT !.allocs[n][u] = [a EXCEPT !.status = "deleting"],
                                     !.iw = @ + 1])
             ELSE IF a.status = "deleted"
             THEN LET d == removeInstasliceAllocation(c, n, u, a, F)
                  IN  IF d.err THEN Return(d, d.kind, d.after, FALSE)
                      ELSE GatedDeleteLoop_FinalizerKept(i + 1, E, S, p, F, d)
             ELSE GatedDeleteLoop_FinalizerKept(i + 1, E, S, p, F, c)

\* lines 208-247: deletion requested while the pod is still gated
RECURSIVE GatedDeleteLoop(_, _, _, _, _, _)
GatedDeleteLoop(i, E, S, p, F, c) ==
    IF i > Len(E) THEN Return(c, "done", 0, FALSE)
    ELSE LET n == E[i][1]
             u == E[i][2]
             a == S.allocs[n][u]
         IN  IF u # p THEN GatedDeleteLoop(i + 1, E, S, p, F, c)
             ELSE IF a.status = "created"
             THEN IF "InvGet" \in F \/ "InvUpdate" \in F
                  THEN Return(c, "after", ConflictSeconds, FALSE)
                  ELSE GatedDeleteLoop(i + 1, E, S, p, F,
                           [c EXCEPT !.allocs[n][u] = [a EXCEPT !.status = "deleting"],
                                     !.iw = @ + 1])
             ELSE IF a.status = "deleted"
             THEN LET d == removeInstasliceAllocation(c, n, u, a, F)
                  IN  IF d.err THEN Return(d, d.kind, d.after, FALSE)
                      ELSE IF d.pod.fin
                      THEN LET f == RemoveFinalizerAndUpdate(d, F)
                           IN  IF f.ret THEN f
                               ELSE GatedDeleteLoop(i + 1, E, S, p, F, f)
                      ELSE GatedDeleteLoop(i + 1, E, S, p, F, d)
             ELSE GatedDeleteLoop(i + 1, E, S, p, F, c)

\* lines 265-286: the grace period of a running pod, for one allocation
GraceStep(c, n, u, a, F, elapsed) ==
    IF elapsed > GracePeriod
    THEN IF "GraceGet" \in F THEN Return(c, "requeue", 0, FALSE)
         ELSE IF "GraceUpdate" \in F THEN Return(c, "after", ConflictSeconds, FALSE)
         ELSE [c EXCEPT !.allocs[n][u] = [a EXCEPT !.status = "deleting"], !.iw = @ + 1]
    ELSE Return(c, "after", GracePeriod - elapsed, FALSE)

\* lines 249-294: deletion requested after the gate was removed
RECURSIVE GraceLoop(_, _, _, _, _, _)
GraceLoop(i, E, S, p, F, c) ==
    IF i > Len(E) THEN Return(c, "done", 0, FALSE)
    ELSE LET n == E[i][1]
             u == E[i][2]
             a == S.allocs[n][u]
         IN  IF u # p THEN GraceLoop(i + 1, E, S, p, F, c)
             ELSE LET d == IF a.status = "deleted"
                           THEN deleteInstasliceAllocation(c, n, u, F)
                           ELSE Yield(c, "done", 0, FALSE)
                  IN  IF d.err THEN Return(d, d.kind, d.after, TRUE)
                      ELSE LET f == IF a.status = "deleted"
                                    THEN Yield(removeInstaSliceFinalizer(d, F), "done", 0, FALSE)
                                    ELSE d
                               g == GraceStep(f, n, u, a, F, c.pod.age)
                           IN  IF g.ret THEN g ELSE GraceLoop(i + 1, E, S, p, F, g)

\* UngateAndUpdate without the node selector of lines 351-354
UngateAndUpdate_NoSelector(c, a, F, site) ==
    IF site \in F THEN Return(c, "requeue", 0, FALSE)
    ELSE [c EXCEPT !.pod = unGatePod(c.pod), !.pw = @ + 1]

\* lines 349-360 and 369-380: node selector, gate removal, r.Update(pod)
UngateAndUpdate(c, a, F, site) ==
    IF site \in F THEN Return(c, "requeue", 0, FALSE)
    ELSE [c EXCEPT !.pod = unGatePod([c.pod EXCEPT !.sel = a.nodename]), !.pw = @ + 1]

\* UngateLoop with the Update of the pod (line 357) before the Get and Update
\* of the inventory (lines 333-348)
RECURSIVE UngateLoop_PodFirst(_, _, _, _, _, _, _, _)
UngateLoop_PodFirst(i, E, S, p, F, c, gpuOperatorPodOk, ready) ==
    IF i > Len(E) THEN c
    ELSE LET n == E[i][1]
             u == E[i][2]
             a == S.allocs[n][u]
         IN  IF u # p THEN UngateLoop_PodFirst(i + 1, E, S, p, F, c, gpuOperatorPodOk, ready)
             ELSE IF a.status = "created"
             THEN IF "Oracle" \in F THEN Return(c, "after", RetrySeconds, FALSE)
                  ELSE IF ~ready THEN Return(c, "after", RetrySeconds, FALSE)
                  ELSE LET x == UngateAndUpdate(c, a, F, "PodUpdate")
                       IN  IF x.ret THEN x
                           ELSE IF "InvGet" \in F \/ "InvUpdate" \in F
                           THEN Return(x, "requeue", 0, FALSE)
                           ELSE UngateLoop_PodFirst(i + 1, E, S, p, F,
                                    [x EXCEPT !.allocs[n][u] = [a EXCEPT !.status = "ungated"],
                                              !.iw = @ + 1],
                                    TRUE, ready)
             ELSE UngateLoop_PodFirst(i + 1, E, S, p, F, c, gpuOperatorPodOk, ready)

\* lines 320-386: the allocation of the pod is Created or Ungated
RECURSIVE UngateLoop(_, _, _, _, _, _, _, _)
UngateLoop(i, E, S, p, F, c, gpuOperatorPodOk, ready) ==
    IF i > Len(E) THEN c
    ELSE LET n == E[i][1]
             u == E[i][2]
             a == S.allocs[n][u]
         IN  IF u # p THEN UngateLoop(i + 1, E, S, p, F, c, gpuOperatorPodOk, ready)
             ELSE IF a.status = "created"
             THEN IF "Oracle" \in F THEN Return(c, "after", RetrySeconds, FALSE)
                  ELSE IF "InvGet" \in F \/ "InvUpdate" \in F
                  THEN Return(c, "requeue", 0, FALSE)
                  ELSE LET w == [c EXCEPT !.allocs[n][u] = [a EXCEPT !.status = "ungated"],
                                          !.iw = @ + 1]
                       IN  IF ready
                           THEN LET x == UngateAndUpdate(w, a, F, "PodUpdate")
                                    y == UngateAndUpdate(x, a, F, "PodUpdate2")
                                IN  IF x.ret THEN x
                                    ELSE IF y.ret THEN y
                                    ELSE UngateLoop(i + 1, E, S, p, F, y, TRUE, ready)
                           ELSE Return(w, "after", RetrySeconds, FALSE)
             ELSE IF a.status = "ungated"
             THEN IF gpuOperatorPodOk
                  THEN LET x == UngateAndUpdate(c, a, F, "PodUpdate")
                       IN  IF x.ret THEN x
                           ELSE UngateLoop(i + 1, E, S, p, F, x, gpuOperatorPodOk, ready)
                  ELSE Return(c, "after", RetrySeconds, FALSE)
             ELSE UngateLoop(i + 1, E, S, p, F, c, gpuOperatorPodOk, ready)

\* PlaceLoop without the return of line 424: the loop goes on to the next
\* node after a write
RECURSIVE PlaceLoop_NoReturn(_, _, _, _, _, _)
PlaceLoop_NoReturn(j, S, p, F, c, profileName) ==
    IF j > Len(S.items)
    THEN IF c.iw > 0 THEN Return(c, "done", 0, FALSE) ELSE Return(c, "backoff", 0, FALSE)
    ELSE LET n == S.items[j]
             found == findNodeAndDeviceForASlice(S, n, profileName, p)
             allocDetails == found.alloc
         IN  IF found.err THEN PlaceLoop_NoReturn(j + 1, S, p, F, c, profileName)
             ELSE IF \E item \in S.prepared[n] :
                        /\ item.dev = allocDetails.dev
                        /\ item.size = allocDetails.size
                        /\ item.start = allocDetails.start
             THEN Return(c, "after", ConflictSeconds, FALSE)
             ELSE IF "InvGet" \in F \/ "InvUpdate" \in F
             THEN Return(c, "requeue", 0, FALSE)
             ELSE PlaceLoop_NoReturn(j + 1, S, p, F,
                        [c EXCEPT !.allocs[n][p] = allocDetails, !.iw = @ + 1],
                        profileName)

\* lines 389-433: no allocation yet: first node with a free slice, or the
\* random back-off of line 431, drawn when the result is returned
RECURSIVE PlaceLoop(_, _, _, _, _, _)
PlaceLoop(j, S, p, F, c, profileName) ==
    IF j > Len(S.items) THEN Return(c, "backoff", 0, FALSE)
    ELSE LET n == S.items[j]
             found == findNodeAndDeviceForASlice(S, n, profileName, p)
             allocDetails == found.alloc
         IN  IF found.err THEN PlaceLoop(j + 1, S, p, F, c, profileName)
             ELSE IF \E item \in S.prepared[n] :
                        /\ item.dev = allocDetails.dev
                        /\ item.size = allocDetails.size
                        /\ item.start = allocDetails.start
             THEN Return(c, "after", ConflictSeconds, FALSE)
             ELSE IF "InvGet" \in F \/ "InvUpdate" \in F
             THEN Return(c, "requeue", 0, FALSE)
             ELSE Return([c EXCEPT !.allocs[n][p] = allocDetails, !.iw = @ + 1],
                         "done", 0, FALSE)

\* AllocBranch without the test of the number of containers (line 302)
AllocBranch_NoContainerCheck(S, p, F, c, profileName, ready) ==
    LET E == Entries(S)
        podHasNodeAllocation == \E i \in 1..Len(E) : E[i][2] = p
        d == UngateLoop(1, E, S, p, F, c, FALSE, ready)
    IN  IF d.ret THEN d
        ELSE IF ~podHasNodeAllocation THEN PlaceLoop(1, S, p, F, d, profileName)
        ELSE Return(d, "done", 0, FALSE)

\* lines 300-435: the pod is gated, not terminal, not being deleted
AllocBranch(S, p, F, c, profileName, ready) ==
    IF c.pod.containers # 1 THEN Return(c, "done", 0, TRUE)
    ELSE LET E == Entries(S)
             podHasNodeAllocation == \E i \in 1..Len(E) : E[i][2] = p
             d == UngateLoop(1, E, S, p, F, c, FALSE, ready)
         IN  IF d.ret THEN d
             ELSE IF ~podHasNodeAllocation THEN PlaceLoop(1, S, p, F, d, profileName)
             ELSE Return(d, "done", 0, FALSE)

Tag(c, b) == [c EXCEPT !.branch = b]

\* lines 100-438: the pod was fetched.  The Update of line 115 fails when a
\* call fails and always on a pod under deletion: the API server accepts no
\* new finalizer on an object that has a deletion timestamp.
FoundBranch(S, p, F, c0, profileName, ready) ==
    LET pod == c0.pod
        isPodGated == checkIfPodGatedByInstaSlice(pod)
        E == Entries(S)
    IN  IF isPodGatedByOthers(pod) THEN Tag(Return(c0, "done", 0, FALSE), "others")
        ELSE IF ~isPodGated /\ ~pod.fin THEN Tag(Return(c0, "done", 0, FALSE), "ignored")
        ELSE IF isPodGated /\ ~pod.fin /\ ("AddFin" \in F \/ pod.del)
        THEN Tag(Return(c0, "requeue", 0, FALSE), "addfin")
        ELSE LET c == IF isPodGated /\ ~pod.fin
                      THEN [c0 EXCEPT !.pod.fin = TRUE, !.pw = @ + 1]
                      ELSE c0
             IN  IF c.pod.phase = "Failed" /\ c.pod.fin
                 THEN Tag(FailedLoop(1, E, S, p, F, c, TRUE), "failed")
                 ELSE IF c.pod.phase = "Succeeded" /\ c.pod.fin
                 THEN Tag(SucceededLoop(1, E, S, p, F, c, TRUE), "succeeded")
                 ELSE IF c.pod.del /\ isPodGated
                 THEN Tag(GatedDeleteLoop(1, E, S, p, F, c), "gateddelete")
                 ELSE IF c.pod.del
                 THEN Tag(IF c.pod.fin THEN GraceLoop(1, E, S, p, F, c)
                          ELSE Return(c, "done", 0, FALSE), "grace")
                 ELSE IF isPodGated
                 THEN Tag(AllocBranch(S, p, F, c, profileName, ready), "alloc")
                 ELSE Tag(Return(c, "done", 0, FALSE), "steady")

\* InstasliceReconciler.Reconcile from line 78 on, as a function of the
\* snapshot S, the pod and inventory at the API server, the failing calls F,
\* the profile read from the limits and the answer of the health oracle
RunPass(S, p, pod, F, profileName, ready) ==
    LET c0 == Ctx(pod, allocs)
    IN  IF "GetPod" \in F THEN Tag(Return(c0, "done", 0, FALSE), "geterr")
        ELSE IF pod.state # "live"
        THEN Tag(NotFoundLoop(1, Entries(S), S, F, c0), "notfound")
        ELSE FoundBranch(S, p, F, c0, profileName, ready)


\* ---------------------------------------------------------- the system
\* the API calls of a pass that can fail: at most one of them per pass
Sites ==
    {"GetPod", "AddFin", "InvGet", "InvUpdate", "GraceGet", "GraceUpdate",
     "PodUpdate", "PodUpdate2", "FinGet", "FinUpdate", "Oracle"}

FaultSets == {{}} \cup {{x} : x \in Sites}

CanFail == faults # 0

Spend(failed) == IF failed /\ faults > 0 THEN faults - 1 ELSE faults

LimitSets == {{[mig |-> TRUE, profile |-> k]} : k \in Profiles}

\* elapsed times since the deletion request that a pass can read
Ages == {k * TickStep : k \in 0..(MaxAge \div TickStep)}

\* the requests an update of the inventory puts in the queue (Watches at
\* line 527 with podMapFunc), for every record that differs: the handler of
\* EnqueueRequestsFromMapFunc maps the record as it was and as it is
Mapped(old, new) ==
    UNION {podMapFunc(old[n]) \cup podMapFunc(new[n]) :
              n \in {m \in Nodes : new[m] # old[m]}}

\* the queue after requests for the pods of R arrive
Enqueue(R) ==
    IF world = "open" THEN queued ELSE [q \in Pods |-> queued[q] \/ q \in R]

\* the queue after a worker took the request of p
Dequeue(p) ==
    IF world = "open" THEN queued ELSE [queued EXCEPT ![p] = FALSE]

\* what the health oracle can answer now
OracleAnswers == IF healthy = "any" THEN BOOLEAN ELSE {healthy = "yes"}

\* instasliceList as the pass of p reads it: of an allocation of another
\* workload the pass reads the range and the names, never the status, and of a
\* prepared slice the parent and the range, never the owner
View(p) ==
    [items |-> NodeSeq,
     allocs |-> [n \in Nodes |-> [u \in Pods |->
                    IF u = p \/ ~HasEntry(allocs[n][u]) THEN allocs[n][u]
                    ELSE [allocs[n][u] EXCEPT !.status = "any"]]],
     prepared |-> [n \in Nodes |-> {[item EXCEPT !.pod = 0] : item \in prepared[n]}]]

\* no pass is between returning its result and the queue taking it: the
\* hand-over is local to the controller, nothing else is observed meanwhile
Quiet == \A q \in Pods : pc[q] # "returned"

\* the slices of the cluster: (node, device, start) of the one-slot profile
Slices == Nodes \X Devices \X PlacementStarts(1)

\* the slices in the order node, device, start
SliceBefore(a, b) ==
    \/ a[1] < b[1]
    \/ a[1] = b[1] /\ a[2] < b[2]
    \/ a[1] = b[1] /\ a[2] = b[2] /\ a[3] < b[3]

\* Workloads of the past: their pods are gone and some left an Ungated
\* allocation with its prepared slice behind (the pod was removed while the
\* entry stayed).  bg[u] is the slice pod u left, or <<>>; no two share one,
\* and the workloads are numbered in the order of their slices.
Backgrounds(B) ==
    {bg \in [B -> Slices \cup {<<>>}] :
        \A u, v \in B : (u < v /\ bg[v] # <<>>)
                            => (bg[u] # <<>> /\ SliceBefore(bg[u], bg[v]))}

LeftAlloc(u, sl) ==
    SetAllocationDetails(1, sl[3], 1, u, sl[1], "ungated", sl[2])

\* the state with the pods of B gone, leaving bg behind, and the others new
Start(B, bg) ==
    /\ pods = [p \in Pods |-> IF p \in B THEN GonePod ELSE NoPod]
    /\ allocs = [n \in Nodes |-> [u \in Pods |->
                    IF u \in B /\ bg[u] # <<>> /\ bg[u][1] = n
                    THEN LeftAlloc(u, bg[u]) ELSE NoAlloc]]
    /\ prepared = [n \in Nodes |->
                    {[pod |-> u, dev |-> bg[u][2], start |-> bg[u][3], size |-> 1] :
                        u \in {v \in B : bg[v] # <<>> /\ bg[v][1] = n}}]
    /\ pc = [p \in Pods |-> "idle"]
    /\ snap = [p \in Pods |-> EmptyList]
    /\ res = [p \in Pods |-> NoResult]

\* one workload in a cluster that earlier workloads left partly occupied; the
\* open system.  Nothing requests a pass for a workload of the past: its pod
\* is no watch source and line 502 maps only Created and Deleted entries.
Init ==
    /\ \E bg \in Backgrounds(Pods \ {1}) : Start(Pods \ {1}, bg)
    /\ queued = [p \in Pods |-> p = 1]
    /\ healthy = "any"
    /\ faults = -1
    /\ world = "open"

\* two workloads in an empty cluster, no API call fails, the oracle is healthy
RaceInit ==
    /\ Start(Pods \ {1, 2}, [u \in Pods \ {1, 2} |-> <<>>])
    /\ queued = [p \in Pods |-> p \in {1, 2}]
    /\ healthy = "yes"
    /\ faults = 0
    /\ world = "open"

\* a pod is created, gated by the admission webhook; pods are created in the
\* order of their UIDs
CreatePod(p) ==
    /\ Quiet
    /\ pods[p].state = "new"
    /\ \A q \in Pods : q < p => pods[q].state # "new"
    /\ \E k \in {1, 2}, og \in BOOLEAN, lim \in LimitSets :
          pods' = [pods EXCEPT ![p] =
                      [NoPod EXCEPT !.state = "live", !.gate = TRUE, !.otherGate = og,
                                    !.containers = k, !.limits = lim]]
    /\ queued' = Enqueue({p})
    /\ UNCHANGED <<allocs, prepared, pc, snap, res, healthy, faults, world>>

\* the owner of another scheduling gate removes it
ForeignUngate(p) ==
    /\ Quiet
    /\ pods[p].state = "live" /\ pods[p].otherGate
    /\ pods' = [pods EXCEPT ![p].otherGate = FALSE]
    /\ queued' = Enqueue({p})
    /\ UNCHANGED <<allocs, prepared, pc, snap, res, healthy, faults, world>>

\* the user asks for the deletion of the pod
UserDelete(p) ==
    /\ Quiet
    /\ pods[p].state = "live" /\ ~pods[p].del
    /\ pods' = [pods EXCEPT ![p].del = TRUE]
    /\ queued' = Enqueue({p})
    /\ UNCHANGED <<allocs, prepared, pc, snap, res, healthy, faults, world>>

\* the API server removes a pod under deletion that has no finalizer left
PodGone(p) ==
    /\ Quiet
    /\ pods[p].state = "live" /\ pods[p].del /\ ~pods[p].fin
    /\ pc[p] = "idle"
    /\ pods' = [pods EXCEPT ![p] = GonePod]
    /\ queued' = Enqueue({p})
    /\ UNCHANGED <<allocs, prepared, pc, snap, res, healthy, faults, world>>

\* the kubelet starts a pod that no gate holds back
PodStart(p) ==
    /\ Quiet
    /\ pods[p].state = "live" /\ pods[p].phase = "Pending"
    /\ ~pods[p].gate /\ ~pods[p].otherGate /\ ~pods[p].del
    /\ pods' = [pods EXCEPT ![p].phase = "Running"]
    /\ queued' = Enqueue({p})
    /\ UNCHANGED <<allocs, prepared, pc, snap, res, healthy, faults, world>>

\* a running pod terminates
PodEnd(p) ==
    /\ Quiet
    /\ pods[p].state = "live" /\ pods[p].phase = "Running"
    /\ \E ph \in {"Succeeded", "Failed"} : pods' = [pods EXCEPT ![p].phase = ph]
    /\ queued' = Enqueue({p})
    /\ UNCHANGED <<allocs, prepared, pc, snap, res, healthy, faults, world>>

\* the device plugin pod changes between ready and not ready
OracleFlip ==
    /\ Quiet
    /\ healthy \in {"yes", "no"}
    /\ healthy' = IF healthy = "yes" THEN "no" ELSE "yes"
    /\ UNCHANGED <<pods, allocs, prepared, pc, snap, res, queued, faults, world>>

\* the node agent creates the slice of a Creating allocation
AgentRealise(n, u) ==
    /\ allocs[n][u].status = "creating"
    /\ allocs' = [allocs EXCEPT ![n][u].status = "created"]
    /\ prepared' = [prepared EXCEPT ![n] = @ \cup
                      {[pod |-> u, dev |-> allocs[n][u].dev,
                        start |-> allocs[n][u].start, size |-> allocs[n][u].size]}]
    /\ queued' = Enqueue(Mapped(allocs, allocs'))
    /\ UNCHANGED <<pods, pc, snap, res, healthy, faults, world>>

\* the node agent destroys the slice of a Deleting allocation
AgentTeardown(n, u) ==
    /\ allocs[n][u].status = "deleting"
    /\ allocs' = [allocs EXCEPT ![n][u].status = "deleted"]
    /\ prepared' = [prepared EXCEPT ![n] = {item \in @ : item.pod # u}]
    /\ queued' = Enqueue(Mapped(allocs, allocs'))
    /\ UNCHANGED <<pods, pc, snap, res, healthy, faults, world>>

\* the periodic resynchronisation of the pod informer, in the closed system
Resync(p) ==
    /\ world = "closed"
    /\ pods[p].state = "live" /\ ~queued[p]
    /\ queued' = [queued EXCEPT ![p] = TRUE]
    /\ UNCHANGED <<pods, allocs, prepared, pc, snap, res, healthy, faults, world>>

\* line 75: a worker takes the request of p and lists the inventory; a failed
\* List is logged and leaves the list empty
List(p) ==
    /\ Quiet
    /\ pc[p] = "idle" /\ queued[p]
    /\ pods[p].state # "new"
    /\ \E ok \in BOOLEAN :
          /\ ok \/ CanFail
          /\ snap' = [snap EXCEPT ![p] = IF ok THEN View(p) ELSE EmptyList]
          /\ faults' = Spend(~ok)
    /\ pc' = [pc EXCEPT ![p] = "listed"]
    /\ queued' = Dequeue(p)
    /\ UNCHANGED <<pods, allocs, prepared, res, healthy, world>>

\* the (Result, error) values a pass can return: line 431 draws the back-off
Results(c) ==
    IF c.kind = "backoff"
    THEN {[kind |-> "after", after |-> d, err |-> c.err, iw |-> c.iw, pw |-> c.pw,
           branch |-> "nocapacity"] : d \in 1..RandMax}
    ELSE {[kind |-> c.kind, after |-> c.after, err |-> c.err, iw |-> c.iw,
           pw |-> c.pw, branch |-> c.branch]}

\* time.Since(pod.DeletionTimestamp) as line 265 can read it: not less than
\* what an earlier pass read; pods[p].age is the last reading
Elapsed(p) ==
    IF pods[p].state = "live" /\ pods[p].del /\ ~pods[p].gate
    THEN {e \in Ages : e >= pods[p].age}
    ELSE {pods[p].age}

\* the outcomes of the pass of p from the current state: the pod and the
\* inventory it leaves, the result it returns, whether a call failed
Outcomes(p) ==
    UNION {
        LET c == RunPass(snap[p], p, [pods[p] EXCEPT !.age = in[4]], in[1], in[2], in[3])
        IN  {[pod |-> c.pod, allocs |-> c.allocs, res |-> r, failed |-> in[1] # {}] :
                r \in Results(c)}
        : in \in FaultSets \X extractProfileName(pods[p].limits) \X OracleAnswers
                 \X Elapsed(p)}

\* lines 78-438: the rest of the pass
Reconcile(p) ==
    /\ Quiet
    /\ pc[p] = "listed"
    /\ \E o \in Outcomes(p) :
          /\ ~o.failed \/ CanFail
          /\ faults' = Spend(o.failed)
          /\ pods' = [pods EXCEPT ![p] = o.pod]
          /\ allocs' = o.allocs
          /\ res' = [res EXCEPT ![p] = o.res]
          /\ queued' = Enqueue(Mapped(allocs, o.allocs)
                               \cup (IF o.pod # pods[p] THEN {p} ELSE {}))
    /\ pc' = [pc EXCEPT ![p] = "returned"]
    /\ snap' = [snap EXCEPT ![p] = EmptyList]
    /\ UNCHANGED <<prepared, healthy, world>>

\* what the controller does with the (Result, error) of a pass
Requeues(r) == r.err \/ r.kind = "requeue" \/ (r.kind = "after" /\ r.after > 0)

\* the work queue takes the result of the pass
Handover(p) ==
    /\ pc[p] = "returned"
    /\ queued' = Enqueue(IF Requeues(res[p]) THEN {p} ELSE {})
    /\ res' = [res EXCEPT ![p] = NoResult]
    /\ pc' = [pc EXCEPT ![p] = "idle"]
    /\ UNCHANGED <<pods, allocs, prepared, snap, healthy, faults, world>>

Next ==
    \/ \E p \in Pods : CreatePod(p)
    \/ \E p \in Pods : ForeignUngate(p)
    \/ \E p \in Pods : UserDelete(p)
    \/ \E p \in Pods : PodGone(p)
    \/ \E p \in Pods : PodStart(p)
    \/ \E p \in Pods : PodEnd(p)
    \/ \E n \in Nodes, u \in Pods : AgentRealise(n, u)
    \/ \E n \in Nodes, u \in Pods : AgentTeardown(n, u)
    \/ \E p \in Pods : List(p)
    \/ \E p \in Pods : Reconcile(p)
    \/ \E p \in Pods : Handover(p)

Spec == Init /\ [][Next]_vars

RaceSpec == RaceInit /\ [][Next]_vars

\* The closed system: a pass runs only on a request that an event, a returned
\* directive or a resynchronisation put in the queue, the oracle is ready or
\* not, and at most MaxFaults API calls fail.
LiveInit ==
    /\ \E bg \in Backgrounds(Pods \ {1}) : Start(Pods \ {1}, bg)
    /\ queued = [p \in Pods |-> FALSE]
    /\ healthy = "yes"
    /\ faults = MaxFaults
    /\ world = "closed"

LiveNext ==
    \/ Next
    \/ OracleFlip
    \/ \E p \in Pods : Resync(p)

\* Reconcile(p) is enabled exactly in these states (no failure is always among
\* the outcomes), and every step that leaves them for p is a Reconcile(p) step
PassPending(p) == Quiet /\ pc[p] = "listed"

\* The work queue hands every request to a worker, a pass runs to its end, the
\* informer resynchronises every pod in the end, and the node agent acts on
\* every allocation it is asked to realise or destroy.  For Reconcile(p) weak
\* fairness is written as the recurrence it amounts to: the pass is not
\* pending forever.
Fairness ==
    /\ \A p \in Pods : WF_vars(List(p)) /\ WF_vars(Handover(p)) /\ WF_vars(Resync(p))
    /\ \A p \in Pods : []<>~PassPending(p)
    /\ \A n \in Nodes, u \in Pods :
          WF_vars(AgentRealise(n, u)) /\ WF_vars(AgentTeardown(n, u))

LiveSpec == LiveInit /\ [][LiveNext]_vars /\ Fairness

\* The allocation policies on their own: a caller asks a policy for the
\* details of a slice of each workload in turn and keeps what it gets, the
\* details in the record of the node and the name of the policy with the
\* signal in res.
PolicyInit ==
    /\ Start({}, <<>>)
    /\ queued = [p \in Pods |-> FALSE]
    /\ healthy = "yes"
    /\ faults = 0
    /\ world = "closed"

PolicyCall(policy, u, n, dev, start, k) ==
    LET r == PolicyResult(policy, k, start, k, u, n, "creating", dev)
    IN  /\ res[u] = NoResult
        /\ \A v \in Pods : v < u => res[v] # NoResult
        /\ allocs' = [allocs EXCEPT ![n][u] = r.details]
        /\ res' = [res EXCEPT ![u] =
                      [NoResult EXCEPT !.kind = "done", !.err = r.signalled,
                                       !.branch = policy]]
        /\ UNCHANGED <<pods, prepared, pc, snap, queued, healthy, faults, world>>

PolicyNext ==
    \E policy \in Policies, u \in Pods, n \in Nodes, dev \in Devices,
       k \in Profiles :
        \E start \in PlacementStarts(k) : PolicyCall(policy, u, n, dev, start, k)

PolicySpec == PolicyInit /\ [][PolicyNext]_vars

\* the closed system in which no API call fails, without the assumptions on
\* scheduling
ClosedInit ==
    /\ \E bg \in Backgrounds(Pods \ {1}) : Start(Pods \ {1}, bg)
    /\ queued = [p \in Pods |-> FALSE]
    /\ healthy = "yes"
    /\ faults = 0
    /\ world = "closed"

ClosedSpec == ClosedInit /\ [][LiveNext]_vars

----------------------------------------------------------------------------
\* Properties

\* C1: in every reachable state no two allocation entries on the same node and
\* the same device have overlapping ranges [start, start+size), whatever the
\* interleaving of the passes of different workloads and of the agent
C1_NoOverlappingAllocations ==
    \A n \in Nodes : \A u, v \in Pods :
        (u # v /\ HasEntry(allocs[n][u]) /\ HasEntry(allocs[n][v])
              /\ allocs[n][u].dev = allocs[n][v].dev)
        => ~Overlap(allocs[n][u].start, allocs[n][u].size,
                    allocs[n][v].start, allocs[n][v].size)

\* C2: in every reachable state every workload has at most one allocation
\* entry across the inventory records of all nodes, also after passes that
\* listed nothing or whose write was rejected
C2_AtMostOneAllocationPerWorkload ==
    \A u \in Pods : Cardinality({n \in Nodes : HasEntry(allocs[n][u])}) <= 1

\* a pass of the allocation branch was told to retry while the workload holds
\* its entry on the second node, the first being occupied
C2_Witness ==
    /\ pc[1] = "returned" /\ res[1].branch = "alloc" /\ res[1].kind # "done"
    /\ HasEntry(allocs[2][1]) /\ ~HasEntry(allocs[1][1])
    /\ \E v \in Pods \ {1} : HasEntry(allocs[1][v])

\* C3: a pass removes the cleanup finalizer of a workload only when, right
\* after the pass, the inventory holds no allocation bound to that workload
C3_FinalizerRemovedOnlyWithoutAllocation ==
    [][\A p \in Pods :
          (pods[p].fin /\ ~pods'[p].fin)
          => \A n \in Nodes : ~HasEntry(allocs'[n][p])]_vars

\* the branches of a pass that clean up: lines 124, 166, 208 and 249
CleanupBranches == {"failed", "succeeded", "gateddelete", "grace"}

\* the pass of p is about to run on a snapshot that shows the inventory as it is
FreshPass(p) == pc[p] = "listed" /\ snap[p] = View(p)

\* C4: a pass of a cleanup branch in which no call fails, run on a workload
\* whose allocation is Deleted, leaves no entry of the workload in the
\* inventory; run on a workload with the finalizer and without an entry, it
\* removes the finalizer
C4_CleanupCompleteness ==
    \A p \in Pods : FreshPass(p) =>
        \A o \in Outcomes(p) :
            (~o.failed /\ o.res.branch \in CleanupBranches) =>
                /\ (\E n \in Nodes : allocs[n][p].status = "deleted")
                      => \A n \in Nodes : ~HasEntry(o.allocs[n][p])
                /\ (pods[p].fin /\ \A n \in Nodes : ~HasEntry(allocs[n][p]))
                      => ~o.pod.fin

\* the place of a status in Creating, Created, Ungated, Deleting, Deleted
StatusRank(st) ==
    CASE st = "creating" -> 1
      [] st = "created" -> 2
      [] st = "ungated" -> 3
      [] st = "deleting" -> 4
      [] st = "deleted" -> 5
      [] OTHER -> 0

\* C5: no step replaces the stored status of an allocation by an earlier one
\* (Deleted is never followed by Deleting), and a pass of a cleanup branch
\* never leaves an entry where none was stored before it
C5_StatusOnlyMovesForward ==
    [][\A n \in Nodes : \A p \in Pods :
          /\ (HasEntry(allocs[n][p]) /\ HasEntry(allocs'[n][p]))
                => StatusRank(allocs'[n][p].status) >= StatusRank(allocs[n][p].status)
          /\ (pc[p] = "listed" /\ pc'[p] = "returned"
                /\ res'[p].branch \in CleanupBranches /\ ~HasEntry(allocs[n][p]))
                => ~HasEntry(allocs'[n][p])]_vars

\* the workload is held back by the gate of this system alone and asks for a
\* slice in its one container
WaitsForSlice(p) ==
    /\ pods[p].state = "live" /\ checkIfPodGatedByInstaSlice(pods[p])
    /\ ~isPodGatedByOthers(pods[p]) /\ ~pods[p].del
    /\ pods[p].containers = 1

\* node n has a slice that no allocation and no prepared slice of another
\* workload covers
OffersFreeSlice(n, p) ==
    \E d \in Devices, st \in PlacementStarts(1) :
        /\ \A u \in Pods \ {p} :
              ~(HasEntry(allocs[n][u]) /\ allocs[n][u].dev = d
                  /\ Overlap(allocs[n][u].start, allocs[n][u].size, st, 1))
        /\ \A item \in prepared[n] :
              ~(item.pod # p /\ item.dev = d /\ Overlap(item.start, item.size, st, 1))

\* the allocation of p is Ungated, the gate is off and the affinity names the
\* node of the allocation
Ungated(p) ==
    \E n \in Nodes :
        /\ allocs[n][p].status = "ungated"
        /\ ~pods[p].gate
        /\ pods[p].sel = n

\* C6: with the oracle healthy, a workload that waits gated while some node
\* offers a free slice is eventually ungated with its allocation Ungated and
\* its affinity on the node of the allocation, unless its deletion is asked
C6_ScenarioA ==
    [](healthy = "yes") =>
        \A p \in Pods :
            (WaitsForSlice(p) /\ \E n \in Nodes : OffersFreeSlice(n, p))
                ~> (Ungated(p) \/ pods[p].del)

\* the running workload of the grace period: gate removed, finalizer present,
\* deletion requested, an allocation that is not yet Deleted
InGracePeriod(p) ==
    /\ pods[p].state = "live" /\ pods[p].del /\ pods[p].fin
    /\ ~pods[p].gate /\ ~pods[p].otherGate
    /\ pods[p].phase \in {"Pending", "Running"}
    /\ \E n \in Nodes : HasEntry(allocs[n][p]) /\ allocs[n][p].status # "deleted"

\* C7: a pass on a running workload under deletion, no call failing, that
\* reads the elapsed time e: for e < 30 s it changes nothing and returns
\* retry-after (30 s - e); for e >= 30 s it leaves the allocation Deleting
C7_GracePeriod ==
    \A p \in Pods : (FreshPass(p) /\ InGracePeriod(p)) =>
        \A o \in Outcomes(p) : ~o.failed =>
            LET e == o.pod.age
            IN  /\ e < GracePeriod =>
                      /\ o.allocs = allocs
                      /\ o.pod = [pods[p] EXCEPT !.age = e]
                      /\ o.res.kind = "after" /\ o.res.after = GracePeriod - e
                /\ e >= GracePeriod =>
                      \E n \in Nodes : o.allocs[n][p].status = "deleting"

\* the steady state: allocation Ungated, gate removed, affinity on the node of
\* the allocation, neither terminal nor under deletion
Steady(p) ==
    /\ pods[p].state = "live" /\ ~pods[p].gate /\ ~pods[p].otherGate
    /\ ~pods[p].del /\ pods[p].phase \in {"Pending", "Running"}
    /\ \E n \in Nodes : allocs[n][p].status = "ungated" /\ pods[p].sel = n

\* C8: a pass on a workload in the steady state, whatever its snapshot and
\* whichever call fails, writes nothing to the inventory and nothing to the
\* workload and returns done, so that repeating it leaves the state as it is
C8_SteadyStateIdempotent ==
    [][\A p \in Pods :
          (pc[p] = "listed" /\ pc'[p] = "returned" /\ Steady(p))
          => /\ allocs' = allocs /\ pods' = pods /\ prepared' = prepared
             /\ res'[p].iw = 0 /\ res'[p].pw = 0
             /\ res'[p].kind = "done" /\ ~res'[p].err
             /\ Steady(p)']_vars

\* a pass on a running workload in the steady state went to the end of
\* Reconcile and has returned
C8_Witness ==
    \E p \in Pods :
        /\ pc[p] = "returned" /\ res[p].branch = "steady" /\ Steady(p)
        /\ pods[p].phase = "Running"

\* the pass of p is about to run for a workload gated by this system alone,
\* with one container and no allocation, on a snapshot in which no node can
\* place a profile the workload asks for
NoCapacity(p) ==
    /\ pc[p] = "listed" /\ WaitsForSlice(p)
    /\ \A n \in Nodes : ~HasEntry(allocs[n][p]) /\ ~HasEntry(snap[p].allocs[n][p])
    /\ \A k \in extractProfileName(pods[p].limits) : \A j \in 1..Len(snap[p].items) :
          findNodeAndDeviceForASlice(snap[p], snap[p].items[j], k, p).err

\* C9: a pass without a failing call, for a gated workload without allocation
\* when no node of the snapshot can place the profile, writes nothing to the
\* inventory and nothing to the workload and returns retry-after d seconds
\* with d a whole number from 1 to 10
C9_NoCapacityNoMutation ==
    \A p \in Pods : NoCapacity(p) =>
        \A o \in Outcomes(p) : ~o.failed =>
            /\ o.allocs = allocs
            /\ o.pod = pods[p]
            /\ o.res.kind = "after" /\ ~o.res.err
            /\ o.res.after \in 1..RandMax

\* what C10 says of the outcome o of a pass: a configuration error goes to the
\* caller, no allocation is written, no retry directive is issued
ConfigurationError(o) ==
    /\ o.res.err
    /\ o.allocs = allocs /\ o.res.iw = 0
    /\ o.res.kind = "done"

\* the pass of p is about to run on a gated workload that asks for more than
\* one resource unit: its pod has not the one container line 302 asks for
GatedMultiRequest(p) ==
    /\ pc[p] = "listed"
    /\ pods[p].state = "live" /\ checkIfPodGatedByInstaSlice(pods[p])
    /\ pods[p].containers # 1

GoneWithAllocation(p) ==
    /\ FreshPass(p) /\ pods[p].state = "gone"
    /\ \E n \in Nodes : HasEntry(allocs[n][p])

\* C11: a pass for a workload whose object no longer exists, no call failing,
\* removes the allocation bound to the workload from the record of its node,
\* whatever its status: after the pass no entry of the workload remains
C11_WorkloadNotFound ==
    \A p \in Pods : GoneWithAllocation(p) =>
        \A o \in Outcomes(p) : ~o.failed =>
            \A n \in Nodes : ~HasEntry(o.allocs[n][p])

PodPhases == {"Pending", "Running", "Succeeded", "Failed"}

\* the pod of p as it is, but with another scheduling gate on it and any
\* finalizer, phase, deletion timestamp and gate of this system
GatedByOthers(p) ==
    {[pods[p] EXCEPT !.otherGate = TRUE, !.gate = g, !.fin = f, !.del = d,
                     !.phase = ph] :
        g \in BOOLEAN, f \in BOOLEAN, d \in BOOLEAN, ph \in PodPhases}

\* C12: a pass on an existing workload that carries a scheduling gate other
\* than the gate of this system writes nothing to the workload and nothing to
\* the inventory and returns done without a requeue, whatever the finalizer,
\* the phase, the deletion timestamp, the allocation of the workload in the
\* snapshot and the answer of the oracle
C12_GatedByOthersDefers ==
    \A p \in Pods : (pc[p] = "listed" /\ pods[p].state = "live") =>
        \A pod \in GatedByOthers(p) :
            \A k \in extractProfileName(pod.limits) : \A ready \in BOOLEAN :
                LET c == RunPass(snap[p], p, pod, {}, k, ready)
                IN  /\ c.pod = pod /\ c.allocs = allocs
                    /\ c.iw = 0 /\ c.pw = 0
                    /\ c.kind = "done" /\ ~c.err

\* a pass on a pod that has another gate and is under deletion has returned at
\* line 102
C12_Witness ==
    \E p \in Pods :
        /\ pc[p] = "returned" /\ res[p].branch = "others"
        /\ pods[p].otherGate /\ pods[p].del

\* C13: a pass that has returned made at most one successful write to the
\* inventory and at most one successful write to the workload, in every branch
C13_AtMostOneWriteEach ==
    \A p \in Pods : pc[p] = "returned" => (res[p].iw <= 1 /\ res[p].pw <= 1)

\* the Update calls on the inventory: line 278, and all the others
InventoryUpdates == {"GraceUpdate", "InvUpdate"}

\* what the pass of p can read besides the snapshot and the pod: the profile
\* of the limits, the answer of the oracle, the elapsed time
PassInputs(p) ==
    extractProfileName(pods[p].limits) \X OracleAnswers \X Elapsed(p)

\* the pass of p with the failing calls F and the inputs in
PassWith(p, F, in) ==
    RunPass(snap[p], p, [pods[p] EXCEPT !.age = in[3]], F, in[1], in[2])

\* the inventory without the entries of workload p
WithoutEntry(inv, p) ==
    [n \in Nodes |-> [u \in Pods |-> IF u = p THEN NoAlloc ELSE inv[n][u]]]

\* C14: when the API server rejects an inventory Update of a pass, the stored
\* inventory is what it was before that call (as the pass found it, or with
\* the entry gone that the same pass deleted before), and the pass returns a
\* directive to retry, never done
C14_RejectedWriteRetries ==
    \A p \in Pods : pc[p] = "listed" =>
        \A site \in InventoryUpdates : \A in \in PassInputs(p) :
            LET c0 == PassWith(p, {}, in)
                c == PassWith(p, {site}, in)
            IN  c.iw < c0.iw =>
                    /\ \A r \in Results(c) : Requeues(r)
                    /\ c.iw = 0 => c.allocs = allocs
                    /\ c.iw > 0 => c.allocs = WithoutEntry(allocs, p)

\* a pass of the grace branch has returned the rejected Update of line 552 to
\* the caller with the request to retry, the Deleted entry still stored
C14_Witness ==
    \E p \in Pods :
        /\ pc[p] = "returned" /\ res[p].branch = "grace"
        /\ res[p].kind = "requeue" /\ res[p].err /\ res[p].iw = 0
        /\ \E n \in Nodes : allocs[n][p].status = "deleted"

\* C15: in every reachable state a workload without the gate of this system
\* has its node selector set, on the node that its allocation names as long as
\* it has one; and right after the pass that removed the gate the workload has
\* an allocation and the selector names the node recorded in it
C15_UngateSetsAffinity ==
    \A p \in Pods : (pods[p].state = "live" /\ ~pods[p].gate) =>
        /\ pods[p].sel # NoNode
        /\ \A n \in Nodes :
              HasEntry(allocs[n][p]) => pods[p].sel = allocs[n][p].nodename
        /\ (pc[p] = "returned" /\ res[p].branch = "alloc") =>
              \E n \in Nodes : HasEntry(allocs[n][p])

\* the pass that removed the gate has returned, the allocation being on the
\* second node
C15_Witness ==
    \E p \in Pods :
        /\ pc[p] = "returned" /\ res[p].branch = "alloc" /\ res[p].pw > 0
        /\ pods[p].state = "live" /\ ~pods[p].gate
        /\ allocs[2][p].status = "ungated" /\ pods[p].sel = 2

\* C16: a call of a placement strategy other than first fit signals that it is
\* not implemented and leaves its caller no empty allocation
C16_StubsSignalUnimplemented ==
    \A u \in Pods :
        res[u].branch \in {"LeftToRightPolicy", "RightToLeftPolicy"} =>
            /\ res[u].err
            /\ \A n \in Nodes : allocs[n][u] # EmptyDetails

\* the pass of p is about to run on a workload gated by this system alone,
\* without the finalizer and not under deletion
GatedWithoutFinalizer(p) ==
    /\ pc[p] = "listed"
    /\ pods[p].state = "live" /\ checkIfPodGatedByInstaSlice(pods[p])
    /\ ~isPodGatedByOthers(pods[p]) /\ ~pods[p].fin /\ ~pods[p].del

\* C17: a pass without a failing call on a workload gated by this system whose
\* finalizer is absent adds the finalizer, changes nothing else of the workload
\* and nothing of the inventory, and returns retry-now
C17_FinalizerAddThenRetry ==
    \A p \in Pods : GatedWithoutFinalizer(p) =>
        \A o \in Outcomes(p) : ~o.failed =>
            /\ o.pod = [pods[p] EXCEPT !.fin = TRUE]
            /\ o.allocs = allocs /\ o.res.iw = 0
            /\ o.res.kind = "requeue"

\* the pass of p holds a snapshot that shows the allocation of p as it is
\* stored, with status Creating
CreatingListed(p) ==
    /\ pc[p] = "listed" /\ pods[p].state = "live"
    /\ \E n \in Nodes :
          allocs[n][p].status = "creating" /\ snap[p].allocs[n][p] = allocs[n][p]

\* the pod of p with the finalizer, in the terminal phase ph
TerminalPod(p, ph) ==
    [pods[p] EXCEPT !.phase = ph, !.fin = TRUE, !.otherGate = FALSE]

\* what C18 says of the pass c: the inventory is left as it is and the pass
\* returns retry-after 2 s
CreatingLeftAlone(c) ==
    /\ c.allocs = allocs /\ c.iw = 0
    /\ c.kind = "after" /\ c.after = RetrySeconds /\ ~c.err

AllocationListed(p, st) ==
    /\ pc[p] = "listed" /\ WaitsForSlice(p)
    /\ \E n \in Nodes :
          allocs[n][p].status = st /\ snap[p].allocs[n][p] = allocs[n][p]

\* what C19 says of the pass c of workload p: the inventory, the gate and the
\* node selector are left as they are and the pass returns retry-after 2 s
WaitsForOracle(p, c) ==
    /\ c.allocs = allocs /\ c.iw = 0
    /\ c.pod.gate = pods[p].gate /\ c.pod.sel = pods[p].sel
    /\ c.kind = "after" /\ c.after = RetrySeconds

\* C19: a pass on a gated workload whose allocation is Created, in which the
\* oracle answers unhealthy or its call fails and no other call fails, leaves
\* the status Created, the gate and the node selector as they are and returns
\* retry-after 2 s
C19_UnhealthyLeavesCreated ==
    \A p \in Pods : AllocationListed(p, "created") =>
        \A k \in extractProfileName(pods[p].limits) :
            /\ WaitsForOracle(p, RunPass(snap[p], p, pods[p], {}, k, FALSE))
            /\ \A ready \in BOOLEAN :
                  WaitsForOracle(p, RunPass(snap[p], p, pods[p], {"Oracle"}, k, ready))

\* C20: a pass without a failing call, the oracle answering healthy, on a
\* workload whose allocation is already Ungated while the gate of this system
\* is still on it, removes the gate and sets the node selector to the node of
\* the allocation, and the status is still Ungated
C20_CrashRecoveryUngates ==
    \A p \in Pods : AllocationListed(p, "ungated") =>
        \A k \in extractProfileName(pods[p].limits) :
            LET c == RunPass(snap[p], p, pods[p], {}, k, TRUE)
            IN  \E n \in Nodes :
                    /\ c.allocs[n][p].status = "ungated"
                    /\ ~c.pod.gate
                    /\ c.pod.sel = c.allocs[n][p].nodename

\* the pass of p is about to run, on a snapshot that shows the inventory as it
\* is, for a workload under deletion that this system still gates
GatedUnderDeletion(p) ==
    /\ FreshPass(p)
    /\ pods[p].state = "live" /\ checkIfPodGatedByInstaSlice(pods[p])
    /\ pods[p].del

\* C21: a pass without a failing call on a workload whose deletion is asked
\* while this system still gates it: a Created allocation is left Deleting; a
\* Deleted allocation is removed and the finalizer with it; with a Creating or
\* Deleting allocation nothing is written to the inventory
C21_DeletedWhileGated ==
    \A p \in Pods : GatedUnderDeletion(p) =>
        \A o \in Outcomes(p) : ~o.failed =>
            \A n \in Nodes :
                /\ allocs[n][p].status = "created"
                      => o.allocs[n][p].status = "deleting"
                /\ allocs[n][p].status = "deleted"
                      => /\ \A m \in Nodes : ~HasEntry(o.allocs[m][p])
                         /\ ~o.pod.fin
                /\ allocs[n][p].status \in {"creating", "deleting"}
                      => o.allocs = allocs /\ o.res.iw = 0

\* a pass of the branch of line 208 has removed the Deleted entry and the
\* finalizer and has returned
C21_Witness ==
    \E p \in Pods :
        /\ pc[p] = "returned" /\ res[p].branch = "gateddelete"
        /\ res[p].iw = 1 /\ res[p].pw = 1
        /\ pods[p].gate /\ pods[p].del /\ ~pods[p].fin
        /\ \A n \in Nodes : ~HasEntry(allocs[n][p])

\* C22: a pass for workload p changes at most the allocation entry of p in the
\* record of one node; it leaves the prepared slices and the allocation entries
\* of all other workloads as they are, whatever its snapshot and whichever
\* call fails
C22_InventoryWriteFrame ==
    [][\A p \in Pods :
          (pc[p] = "listed" /\ pc'[p] = "returned")
          => /\ prepared' = prepared
             /\ \A n \in Nodes : \A u \in Pods \ {p} : allocs'[n][u] = allocs[n][u]
             /\ Cardinality({n \in Nodes : allocs'[n][p] # allocs[n][p]}) <= 1]_vars

\* a pass has returned after writing the entry of its workload, on a node
\* other than the one that holds the entry and the prepared slice of another
\* workload
C22_Witness ==
    \E p \in Pods : \E n \in Nodes : \E u \in Pods \ {p} :
        /\ pc[p] = "returned" /\ res[p].iw > 0
        /\ HasEntry(allocs[n][u]) /\ prepared[n] # {}
        /\ \E m \in Nodes \ {n} : HasEntry(allocs[m][p])

\* a prepared slice of node n that belongs to another workload than p and
\* covers part of the range of the allocation a
DrainingUnder(n, p, a) ==
    \E item \in prepared[n] :
        /\ item.pod # p /\ item.dev = a.dev
        /\ Overlap(item.start, item.size, a.start, a.size)

\* C23: no step writes an allocation with status Creating onto a range that a
\* prepared slice of another workload still occupies on that node
C23_DrainingGuard ==
    [][\A n \in Nodes : \A p \in Pods :
          (allocs'[n][p].status = "creating" /\ allocs[n][p].status # "creating")
          => ~DrainingUnder(n, p, allocs'[n][p])]_vars

\* the workload holds the finalizer, its deletion is asked and the inventory
\* holds no allocation entry of it
BlockedWithoutAllocation(p) ==
    /\ pods[p].state = "live" /\ pods[p].fin /\ pods[p].del
    /\ \A n \in Nodes : ~HasEntry(allocs[n][p])

\* C24: a workload that holds the finalizer and whose deletion is asked while
\* it has no allocation entry eventually has its finalizer removed
C24_FinalizerEventuallyRemoved ==
    \A p \in Pods : BlockedWithoutAllocation(p) ~> ~pods[p].fin

\* the workload waits gated and its allocation is Created
CreatedAndGated(p) ==
    WaitsForSlice(p) /\ \E n \in Nodes : allocs[n][p].status = "created"

\* C25: if the oracle is healthy from some time on, a gated workload whose
\* allocation is Created, whatever the oracle answered in the passes before,
\* is eventually ungated with its allocation Ungated and its affinity on the
\* node of the allocation, unless its deletion is asked
C25_HealthyAgainUngates ==
    <>[](healthy = "yes") =>
        \A p \in Pods : CreatedAndGated(p) ~> (Ungated(p) \/ pods[p].del)

\* C26: in every reachable state a workload from which this system removed its
\* gate has no allocation entry with status Creating or Created: its entry is
\* Ungated, Deleting or Deleted, or has been removed
C26_UngatedStatusBeforeGate ==
    \A p \in Pods : (pods[p].state = "live" /\ ~pods[p].gate) =>
        \A n \in Nodes : allocs[n][p].status \notin {"creating", "created"}

\* the gate of a workload is off and its allocation has gone on to Deleting
C26_Witness ==
    \E p \in Pods : \E n \in Nodes :
        /\ pods[p].state = "live" /\ ~pods[p].gate /\ pods[p].sel = n
        /\ allocs[n][p].status = "deleting"

\* the workloads named by the Created and Deleted allocations of the records
\* that differ between the inventories old and new
WatchTargets(old, new) ==
    UNION {{new[n][u].podName :
                u \in {v \in Pods : new[n][v].status \in {"created", "deleted"}}} :
           n \in {m \in Nodes : new[m] # old[m]}}

\* what C27 says of a step that changes records of the inventory, T being
\* the workloads the update is to trigger: a request is in the queue for every
\* workload of T, and no other workload is newly queued, except the workload
\* whose own pod the step changed
TriggersExactly(T) ==
    \A u \in Pods :
        /\ u \in T => queued'[u]
        /\ (queued'[u] /\ ~queued[u]) => (u \in T \/ pods'[u] # pods[u])

\* C27 as stated: an update of a record triggers a pass for exactly the
\* workloads named by the allocations that the updated record holds with
\* status Created or Deleted
C27_InventoryUpdateTriggers ==
    [][allocs' # allocs => TriggersExactly(WatchTargets(allocs, allocs'))]_vars

\* C27, amended: for exactly the workloads named by the allocations that the
\* record held before the update or holds after it with status Created or
\* Deleted
C27_InventoryUpdateTriggersAmended ==
    [][allocs' # allocs =>
          TriggersExactly(WatchTargets(allocs, allocs')
                              \cup WatchTargets(allocs', allocs))]_vars

\* the agent has torn down the slice of a workload whose pod still exists, and
\* the request for the workload is in the queue
C27_Witness ==
    \E u \in Pods : \E n \in Nodes :
        /\ world = "closed" /\ pods[u].state = "live"
        /\ allocs[n][u].status = "deleted" /\ allocs[n][u].podName = u
        /\ queued[u] /\ pc[u] = "idle"

====
